---- MODULE Spec2Model ----
(***************************************************************************)
(* The Sub-Saharan Africa Crop Forecast Viewer (src/app.py and             *)
(* src/visualizations.py) as a state machine.  One step is one Streamlit   *)
(* script run: the whole of app.py executed top to bottom for one user     *)
(* interaction.  The tables returned by load_data() are chosen in Init and *)
(* never change; the state a run can change is st.session_state and the    *)
(* st.cache_resource memo of create_map.  What a run showed to the user is *)
(* kept in `run`.                                                          *)
(***************************************************************************)
EXTENDS Integers, Sequences, FiniteSets, TLC

VARIABLES
    cape_eo,            \* load_data(): EO observations table
    viewer_yield,       \* load_data(): yield observations table
    yield_fcst,         \* load_data(): forecast records table
    gdf,                \* load_data(): region collection used for lookups
    geojson,            \* load_data(): features drawn on the clickable map
    session_state,      \* st.session_state
    create_map_cache,   \* the memo of @st.cache_resource create_map
    run,                \* what the last script run did and displayed
    rendered            \* history: for each key, the first artifact a trigger got

data == <<cape_eo, viewer_yield, yield_fcst, gdf, geojson>>
vars == <<cape_eo, viewer_yield, yield_fcst, gdf, geojson,
          session_state, create_map_cache, run, rendered>>

----------------------------------------------------------------------------
(* Bounds of the model.                                                    *)

MaxYieldRows == 2
MaxEoRows == 1
MaxFcstRows == 2
MaxRenders == 1

----------------------------------------------------------------------------
(* Python and pandas values.                                               *)

\* Python's None, for the string-valued names (fnid, a selectbox's value).
None == "None"

\* A name the run never assigned.
Unbound == "unbound"

\* pandas' NaN in the (numeric) year column.
NaN == -1

\* A nullable or not-yet-assigned structured value: <<>> or <<v>>.
Some(v) == <<v>>

Range(s) == {s[i] : i \in DOMAIN s}

SeqsUpTo(S, n) == UNION {[1..k -> S] : k \in 0..n}

\* DataFrame.empty / Series.empty
DfEmpty(df) == Len(df) = 0

\* Series.unique(): the distinct values in order of first appearance.
RECURSIVE Unique(_)
Unique(s) ==
    IF s = <<>> THEN <<>>
    ELSE LET front == Unique(SubSeq(s, 1, Len(s) - 1))
             last == s[Len(s)]
         IN  IF last \in Range(front) THEN front ELSE Append(front, last)

\* sorted() of a collection of distinct integers.
RECURSIVE SortedInts(_)
SortedInts(S) ==
    IF S = {} THEN <<>>
    ELSE LET m == CHOOSE x \in S : \A y \in S : x <= y
         IN  <<m>> \o SortedInts(S \ {m})

\* Python's string order on the strings the tables hold.
StrRank == [Kenya |-> 1, LR |-> 2, Somalia |-> 3, XGB |-> 4]

\* sorted() of a collection of distinct strings.
SortedStrs(S) ==
    LET ranks == SortedInts({StrRank[x] : x \in S})
    IN  [i \in 1..Len(ranks) |-> CHOOSE x \in S : StrRank[x] = ranks[i]]

\* Variant: every value counts as a selection.
TruthyAlways(v) == TRUE

\* Python truthiness of an fnid: None and the empty string are falsy.
Truthy(v) == v \notin {None, ""}

\* st.selectbox(label, options): any option the user can have selected; None
\* when there is nothing to select.
Options(options) == IF options = <<>> THEN {None} ELSE Range(options)

----------------------------------------------------------------------------
(* The data files: the tables load_data() can return.                      *)

Fnids == {"KE2001", "SO1990"}

KE2001 ==
    [fnid |-> "KE2001", admin0 |-> "Kenya", admin1 |-> "Kiambu",
     admin2 |-> "Kiambu", centroid_lat |-> -1, centroid_lon |-> 37]

SO1990 ==
    [fnid |-> "SO1990", admin0 |-> "Somalia", admin1 |-> "Bay",
     admin2 |-> "Baidoa", centroid_lat |-> 3, centroid_lon |-> 43]

Feature(r) ==
    [properties |-> [fnid |-> r.fnid, admin0 |-> r.admin0,
                     admin1 |-> r.admin1, admin2 |-> r.admin2]]

GdfTables == {<<KE2001>>, <<KE2001, SO1990>>}

GeoJson == <<Feature(KE2001), Feature(SO1990)>>

YieldRows == [fnid : Fnids, year : {2018, 2019}, yield_obs : {12}]

YieldTables == SeqsUpTo(YieldRows, MaxYieldRows)

EoRows ==
    [fnid : Fnids, date : {20190301}, ndvi : {5}, prcp : {80}, pdry : {2},
     etos : {4}, tavg : {24}, gdd : {14}, kdd : {1}]

EoTables == SeqsUpTo(EoRows, MaxEoRows)

FcstColumns ==
    <<"fnid", "country", "admin1", "admin2", "season", "year", "model",
      "lead", "yield_fcst", "yield_fcst_error">>

FcstRow(fnid, country, season, year, model, lead) ==
    [fnid |-> fnid, country |-> country, admin1 |-> "adm1", admin2 |-> "adm2",
     season |-> season, year |-> year, model |-> model, lead |-> lead,
     yield_fcst |-> 20, yield_fcst_error |-> 3]

\* The forecast records a table is drawn from, in the file's order (by
\* country, season and year): a record; one of a later year and another lead,
\* leaving a year between them without record; one of another season and model
\* that has no year (NaN); one for a region of another country.
FcstRecords ==
    << FcstRow("KE2001", "Kenya", "long", 2019, "XGB", 1),
       FcstRow("KE2001", "Kenya", "long", 2021, "XGB", 2),
       FcstRow("KE2001", "Kenya", "short", NaN, "LR", 1),
       FcstRow("SO1990", "Somalia", "long", 2019, "XGB", 1) >>

\* The forecast tables: up to MaxFcstRows of these records (a record may
\* repeat), kept in the file's order.
FcstTables ==
    UNION { { [i \in 1..k |-> FcstRecords[f[i]]] :
                f \in {g \in [1..k -> DOMAIN FcstRecords] :
                          \A i \in 1..(k - 1) : g[i] <= g[i + 1]} } :
            k \in 0..MaxFcstRows }

\* The data sets of the forecast explorer: every forecast table, beside one
\* region and no observations.
ForecastDatasets ==
    [gdf : {<<KE2001>>}, viewer_yield : {<<>>}, cape_eo : {<<>>},
     yield_fcst : FcstTables]

\* The data sets of the region explorer: every combination of region, yield
\* and EO tables, beside one forecast record.
RegionDatasets ==
    [gdf : GdfTables, viewer_yield : YieldTables, cape_eo : EoTables,
     yield_fcst : {<<FcstRow("KE2001", "Kenya", "long", 2019, "XGB", 1)>>}]

eo_vars == <<"ndvi", "prcp", "pdry", "etos", "tavg", "gdd", "kdd">>

----------------------------------------------------------------------------
(* The record of one script run.                                           *)

BlankRun(page) ==
    [page |-> page,
     outcome |-> "ok",              \* "ok", "stopped" (st.stop) or an exception
     messages |-> <<>>,             \* st.success / st.info / st.warning, in order
     charts |-> <<>>,               \* st.pyplot / st.plotly_chart, in order
     calls |-> <<>>,                \* calls of the viz renderers, in order
     \* Page 1
     fnid |-> None,
     region_name |-> <<>>,
     crop_yield |-> <<>>,           \* Some(subset) once filtered
     eo_df |-> <<>>,                \* Some(subset) once filtered
     selected_eo_var |-> Unbound,
     \* Page 2
     selected_variable |-> Unbound,
     selected_country |-> Unbound,
     country_fnids |-> <<>>,
     seasons |-> <<>>,
     selected_season |-> Unbound,
     year_range |-> <<>>,
     selected_year |-> <<>>,        \* Some(year) once selected
     selected_model |-> Unbound,
     selected_lead |-> <<>>,        \* Some(lead) once selected
     update |-> FALSE,
     df_filt |-> <<>>,              \* Some(subset) when create_map's body ran
     body_executed |-> FALSE,
     fig |-> <<>>]                  \* Some(fig) when create_map returned

Message(kind, text) == [kind |-> kind, text |-> text]

Chart(via, fig) == [via |-> via, fig |-> fig]

----------------------------------------------------------------------------
(* Page 1: Yield & Climate.                                                *)

\* st_folium's return value: no drawing clicked yet, or the clicked feature.
MapOutputs == {<<>>} \cup {Some(geojson[i]) : i \in DOMAIN geojson}

\* Variant: the matching rows in reverse order.
FilterByFnidReversed(table, fnid) ==
    LET kept == SelectSeq(table, LAMBDA r : r.fnid = fnid)
    IN  [i \in 1..Len(kept) |-> kept[Len(kept) + 1 - i]]

\* table[table['fnid'] == fnid]: a boolean mask keeps the table's row order.
FilterByFnid(table, fnid) == SelectSeq(table, LAMBDA r : r.fnid = fnid)

plot_yield_obs(crop_yield) ==
    [plot |-> "lineplot", data |-> crop_yield, x |-> "year", y |-> "yield_obs",
     marker |-> "o", xlabel |-> "Year", ylabel |-> "Yield (t/ha)",
     title |-> "Maize Yield Over Time"]

plot_eo_var(eo_df, selected_eo) ==
    [plot |-> "lineplot", data |-> eo_df, x |-> "date", y |-> selected_eo,
     marker |-> "o", xlabel |-> "Year", ylabel |-> selected_eo,
     title |-> <<selected_eo, " Over Time (Pre-Harvest)">>]

YieldCall(crop_yield) == [fn |-> "plot_yield_obs", data |-> crop_yield]

EoCall(eo_df, selected_eo) ==
    [fn |-> "plot_eo_var", data |-> eo_df, selected_eo |-> selected_eo]

\* Lines 79-111: the charts of the selected region, or the prompt.  The EO
\* selectbox exists only in a run that reaches line 86; its value is any of
\* eo_vars.
RegionCharts(r) ==
    IF Truthy(r.fnid)
    THEN LET crop_yield == FilterByFnid(viewer_yield, r.fnid)
             eo_df == FilterByFnid(cape_eo, r.fnid)
             r1 == [r EXCEPT !.crop_yield = Some(crop_yield),
                             !.eo_df = Some(eo_df)]
             r2 == IF DfEmpty(crop_yield)
                   THEN [r1 EXCEPT !.messages = Append(@,
                            Message("warning", "No yield data available for this region."))]
                   ELSE [r1 EXCEPT !.calls = Append(@, YieldCall(crop_yield)),
                                   !.charts = Append(@,
                                       Chart("pyplot", plot_yield_obs(crop_yield)))]
         IN  IF ~DfEmpty(eo_df)
             THEN { [r2 EXCEPT !.selected_eo_var = selected_eo_var,
                               !.calls = Append(@, EoCall(eo_df, selected_eo_var)),
                               !.charts = Append(@,
                                   Chart("pyplot", plot_eo_var(eo_df, selected_eo_var)))]
                    : selected_eo_var \in Options(eo_vars) }
             ELSE { [r2 EXCEPT !.messages = Append(@,
                        Message("warning", "No EO data available for this region."))] }
    ELSE { [r EXCEPT !.messages = Append(@,
               Message("info", "Click a region on the map to begin."))] }

\* gdf[gdf['fnid'] == fnid].iloc[0]: the first match, or IndexError.
RegionLookup(fnid) == FilterByFnid(gdf, fnid)

\* Lines 59-111: the runs a map output can produce.
YieldClimateRuns(map_output) ==
    LET r0 == BlankRun("Yield & Climate")
    IN  IF map_output # <<>>
        THEN LET fnid == map_output[1].properties.fnid
                 matches == RegionLookup(fnid)
             IN  IF DfEmpty(matches)
                 THEN \* .iloc[0] of an empty frame raises; the run ends there
                      { [r0 EXCEPT !.fnid = fnid, !.outcome = "IndexError"] }
                 ELSE LET region_row == matches[1]
                          region_name == <<region_row.admin0, " - ", region_row.admin1>>
                      IN  RegionCharts(
                              [r0 EXCEPT !.fnid = fnid,
                                         !.region_name = region_name,
                                         !.messages = Append(@,
                                             Message("success", "Selected Region"))])
        ELSE RegionCharts(r0)

YieldAndClimatePage ==
    \E map_output \in MapOutputs :
        /\ run' \in YieldClimateRuns(map_output)
        /\ UNCHANGED <<data, session_state, create_map_cache, rendered>>

----------------------------------------------------------------------------
(* visualizations.create_map.                                              *)

label_map_get(selected_variable) ==
    CASE selected_variable = "yield_fcst" -> <<"Forecast Yield", "t/ha">>
      [] selected_variable = "yield_fcst_error" -> <<"Forecast Error", "t/ha">>
      [] selected_variable = "yield_fcst_perror" -> <<"Percent Error", "%">>
      [] OTHER -> <<selected_variable, "">>

\* Variant: the query without its lead predicate.
QueryIgnoringLead(fcst, country_fnids, selected_season, selected_year, selected_model, selected_lead) ==
    SelectSeq(fcst, LAMBDA r :
        /\ r.fnid \in Range(country_fnids)
        /\ r.season = selected_season
        /\ r.year = selected_year
        /\ r.model = selected_model)

\* yield_fcst.query("fnid in @country_fnids & season==@selected_season &
\* year==@selected_year & model==@selected_model & lead==@selected_lead")
Query(fcst, country_fnids, selected_season, selected_year, selected_model, selected_lead) ==
    SelectSeq(fcst, LAMBDA r :
        /\ r.fnid \in Range(country_fnids)
        /\ r.season = selected_season
        /\ r.year = selected_year
        /\ r.model = selected_model
        /\ r.lead = selected_lead)

\* Series.mean(): kept as the sum and the count (NaN when the count is 0).
RECURSIVE Sum(_)
Sum(s) == IF s = <<>> THEN 0 ELSE s[1] + Sum(Tail(s))

Mean(s) == [sum |-> Sum(s), count |-> Len(s)]

Column(df, name) == [i \in 1..Len(df) |-> df[i][name]]

\* Variant: the trace is added whether or not there are records.
Layer2Always(df_filt, selected_variable) ==
    << [type |-> "choroplethmapbox",
        locations |-> Column(df_filt, "fnid"),
        z |-> Column(df_filt, selected_variable),
        featureidkey |-> "properties.fnid",
        colorscale |-> "RdYlBu",
        colorbar_title |-> label_map_get(selected_variable)[1],
        text |-> Column(df_filt, "admin1"),
        hover_unit |-> label_map_get(selected_variable)[2]] >>

\* Layer 2: one choropleth trace over the filtered records, only when there
\* are any.
Layer2(df_filt, selected_variable) ==
    IF ~DfEmpty(df_filt)
    THEN << [type |-> "choroplethmapbox",
             locations |-> Column(df_filt, "fnid"),
             z |-> Column(df_filt, selected_variable),
             featureidkey |-> "properties.fnid",
             colorscale |-> "RdYlBu",
             colorbar_title |-> label_map_get(selected_variable)[1],
             text |-> Column(df_filt, "admin1"),
             hover_unit |-> label_map_get(selected_variable)[2]] >>
    ELSE <<>>

\* The body of create_map: the figure it builds.
create_map(fcst, geojson_, gdf_, selected_variable, country_fnids, selected_country, selected_season, selected_year, selected_model, selected_lead) ==
    LET df_filt == Query(fcst, country_fnids, selected_season, selected_year,
                         selected_model, selected_lead)
        country_gdf == SelectSeq(gdf_, LAMBDA g : g.admin0 = selected_country)
        lat0 == Mean(Column(country_gdf, "centroid_lat"))
        lon0 == Mean(Column(country_gdf, "centroid_lon"))
    IN  [data |-> Layer2(df_filt, selected_variable),
         mapbox_style |-> "carto-positron",
         mapbox_zoom |-> 4,
         mapbox_center |-> [lat |-> lat0, lon |-> lon0]]

\* @st.cache_resource: the memo is keyed by every argument but _gdf.
CacheKey(fcst, geojson_, selected_variable, country_fnids, selected_country, selected_season, selected_year, selected_model, selected_lead) ==
    [yield_fcst |-> fcst, geojson |-> geojson_,
     selected_variable |-> selected_variable,
     country_fnids |-> country_fnids,
     selected_country |-> selected_country,
     selected_season |-> selected_season,
     selected_year |-> selected_year,
     selected_model |-> selected_model,
     selected_lead |-> selected_lead]

CacheLookup(cache, key) == {e \in cache : e.key = key}

\* Variant: a memo that keeps nothing.
CacheStoreNothing(cache, key, fig) == cache

CacheStore(cache, key, fig) == cache \cup {[key |-> key, value |-> fig]}

----------------------------------------------------------------------------
(* Page 2: Historical Forecasts.                                           *)

variables ==
    SelectSeq(FcstColumns, LAMBDA col :
        col \notin {"fnid", "country", "admin1", "admin2", "season", "year",
                    "model", "lead"})

countries == SortedStrs(Range(Column(yield_fcst, "country")))

CountryFnids(selected_country) ==
    Unique(Column(SelectSeq(yield_fcst,
                            LAMBDA r : r.country = selected_country), "fnid"))

\* Variant: the seasons of every record, whatever the country.
SeasonsOfAllRecords(country_fnids) == Unique(Column(yield_fcst, "season"))

Seasons(country_fnids) ==
    Unique(Column(SelectSeq(yield_fcst,
                            LAMBDA r : r.fnid \in Range(country_fnids)), "season"))

\* Series.dropna()
DropNa(s) == SelectSeq(s, LAMBDA v : v # NaN)

\* Variant: the years without dropna().
YrsKeepingNa(country_fnids, selected_season) ==
    Column(SelectSeq(yield_fcst, LAMBDA r :
        r.fnid \in Range(country_fnids) /\ r.season = selected_season), "year")

Yrs(country_fnids, selected_season) ==
    DropNa(Column(SelectSeq(yield_fcst, LAMBDA r :
        r.fnid \in Range(country_fnids) /\ r.season = selected_season), "year"))

Min(s) == CHOOSE x \in Range(s) : \A y \in Range(s) : x <= y

Max(s) == CHOOSE x \in Range(s) : \A y \in Range(s) : x >= y

\* list(range(min_year, max_year + 1))
YearRange(yrs) == [i \in 1..(Max(yrs) - Min(yrs) + 1) |-> Min(yrs) + i - 1]

models == SortedStrs(Range(Column(yield_fcst, "model")))

leads == SortedInts(Range(Column(yield_fcst, "lead")))

\* if "choropleth_fig" not in st.session_state: ... = None
InitSessionState(s) ==
    IF "choropleth_fig" \notin s.keys
    THEN [keys |-> s.keys \cup {"choropleth_fig"}, choropleth_fig |-> <<>>]
    ELSE s

\* Variant: the artifact is not kept across a run without trigger.
StoreFigForgetting(s, update, fig) ==
    [s EXCEPT !.choropleth_fig = IF update THEN fig ELSE <<>>]

\* if update: st.session_state.choropleth_fig = fig
StoreFig(s, update, fig) ==
    IF update THEN [s EXCEPT !.choropleth_fig = fig] ELSE s

\* if st.session_state.choropleth_fig is not None: st.plotly_chart(...)
ShowChoropleth(r, s) ==
    IF s.choropleth_fig # <<>>
    THEN [r EXCEPT !.charts = Append(@, Chart("plotly_chart", s.choropleth_fig[1]))]
    ELSE r

\* The keys create_map has been called with so far.
RenderedKeys == {e.key : e \in rendered}

HistoricalForecastsPage ==
    \E selected_variable \in Options(variables),
       selected_country \in Options(countries) :
      LET country_fnids == CountryFnids(selected_country)
          seasons == Seasons(country_fnids)
      IN
      \E selected_season \in Options(seasons) :
        LET yrs == Yrs(country_fnids, selected_season)
            s0 == InitSessionState(session_state)
            r0 == [BlankRun("Historical Forecasts") EXCEPT
                      !.selected_variable = selected_variable,
                      !.selected_country = selected_country,
                      !.country_fnids = country_fnids,
                      !.seasons = seasons,
                      !.selected_season = selected_season]
        IN
        IF DfEmpty(yrs)
        THEN /\ run' = [r0 EXCEPT
                           !.messages = Append(@, Message("warning",
                               "No forecast years available for the selected conditions.")),
                           !.outcome = "stopped"]
             /\ session_state' = s0
             /\ UNCHANGED <<data, create_map_cache, rendered>>
        ELSE
          LET year_range == YearRange(yrs) IN
          \E selected_year \in Options(year_range),
             selected_model \in Options(models),
             selected_lead \in Options(leads),
             update \in BOOLEAN :
            LET key == CacheKey(yield_fcst, geojson, selected_variable,
                                country_fnids, selected_country, selected_season,
                                selected_year, selected_model, selected_lead)
                hit == CacheLookup(create_map_cache, key)
                fig == IF hit # {}
                       THEN (CHOOSE e \in hit : TRUE).value
                       ELSE create_map(yield_fcst, geojson, gdf, selected_variable,
                                       country_fnids, selected_country,
                                       selected_season, selected_year,
                                       selected_model, selected_lead)
                s1 == StoreFig(s0, update, Some(fig))
                r1 == [r0 EXCEPT
                          !.year_range = year_range,
                          !.selected_year = Some(selected_year),
                          !.selected_model = selected_model,
                          !.selected_lead = Some(selected_lead),
                          !.update = update]
                r2 == IF update
                      THEN [r1 EXCEPT
                               !.calls = Append(@, [fn |-> "create_map", key |-> key]),
                               !.body_executed = (hit = {}),
                               !.df_filt = IF hit = {}
                                           THEN Some(Query(yield_fcst, country_fnids,
                                                     selected_season, selected_year,
                                                     selected_model, selected_lead))
                                           ELSE <<>>,
                               !.fig = Some(fig)]
                      ELSE r1
            IN
            /\ update => (key \in RenderedKeys \/ Cardinality(rendered) < MaxRenders)
            /\ run' = ShowChoropleth(r2, s1)
            /\ session_state' = s1
            /\ create_map_cache' =
                   IF update /\ hit = {}
                   THEN CacheStore(create_map_cache, key, fig)
                   ELSE create_map_cache
            /\ rendered' =
                   IF update /\ key \notin RenderedKeys
                   THEN rendered \cup {[key |-> key, value |-> fig]}
                   ELSE rendered
            /\ UNCHANGED data

----------------------------------------------------------------------------

InitWith(datasets) ==
    /\ \E d \in datasets :
          /\ gdf = d.gdf
          /\ viewer_yield = d.viewer_yield
          /\ cape_eo = d.cape_eo
          /\ yield_fcst = d.yield_fcst
    /\ geojson = GeoJson
    /\ session_state = [keys |-> {}, choropleth_fig |-> <<>>]
    /\ create_map_cache = {}
    /\ rendered = {}
    /\ run = BlankRun("none")

Init == InitWith(ForecastDatasets)

InitRegions == InitWith(RegionDatasets)

Next ==
    \/ YieldAndClimatePage
    \/ HistoricalForecastsPage

\* The forecast explorer over every forecast table.
Spec == Init /\ [][Next]_vars

\* The region explorer over every region, yield and EO table.
SpecRegions == InitRegions /\ [][Next]_vars

----------------------------------------------------------------------------
(* Properties.  Each is stated over the tables and the record of the run,  *)
(* without the operators the pages compute their results with.             *)

HF == "Historical Forecasts"

YC == "Yield & Climate"

StoredArtifact == session_state.choropleth_fig

Count(s, x) == Cardinality({i \in DOMAIN s : s[i] = x})

HasMessage(r, kind, text) ==
    \E i \in DOMAIN r.messages :
        r.messages[i].kind = kind /\ r.messages[i].text = text

Called(r, fn) == {i \in DOMAIN r.calls : r.calls[i].fn = fn}

NonDecreasing(s, field) ==
    \A i, j \in DOMAIN s : i < j => s[i][field] <= s[j][field]

\* The region ids of the forecast records of the run's selected country.
SelectedFnids(r) ==
    {q.fnid : q \in {x \in Range(yield_fcst) : x.country = r.selected_country}}

\* The forecast record q matches the run's whole selector tuple.
Matches(r, q) ==
    /\ r.selected_year # <<>>
    /\ r.selected_lead # <<>>
    /\ q.fnid \in SelectedFnids(r)
    /\ q.season = r.selected_season
    /\ q.year = r.selected_year[1]
    /\ q.model = r.selected_model
    /\ q.lead = r.selected_lead[1]

NoRecordMatches(r) == \A q \in Range(yield_fcst) : ~Matches(r, q)

\* The years on record for the run's selected country and season.
AvailableYears(r) ==
    {q.year : q \in {x \in Range(yield_fcst) :
                        /\ x.fnid \in SelectedFnids(r)
                        /\ x.season = r.selected_season}} \ {NaN}

\* The run's six selector values are those of the memo key k.
SameSelectors(r, k) ==
    /\ r.selected_year # <<>>
    /\ r.selected_lead # <<>>
    /\ k.selected_variable = r.selected_variable
    /\ k.selected_country = r.selected_country
    /\ k.selected_season = r.selected_season
    /\ k.selected_year = r.selected_year[1]
    /\ k.selected_model = r.selected_model
    /\ k.selected_lead = r.selected_lead[1]

\* The rows of table for region id fnid, in the table's order.
InTableOrder(sub, table, fnid) ==
    LET M == {i \in DOMAIN table : table[i].fnid = fnid}
    IN  /\ Len(sub) = Cardinality(M)
        /\ \A j \in 1..Len(sub) :
              sub[j] = table[CHOOSE i \in M : Cardinality({k \in M : k < i}) = j - 1]

\* C1: in Flow B the stored choropleth artifact changes only in a run in which
\* the 'Update Map' trigger fired; every other run (selector changes, the other
\* page) leaves it exactly as it was, so it can be stale and stays so until the
\* next trigger.
C1_ArtifactChangesOnlyOnTrigger ==
    [][StoredArtifact' # StoredArtifact => (run'.page = HF /\ run'.update)]_vars

\* C1 witness: a run without trigger displays an artifact that was rendered
\* for another selector tuple and differs from the one the current tuple gives.
C1_StaleArtifactDisplayed ==
    /\ run.page = HF /\ run.outcome = "ok" /\ ~run.update
    /\ StoredArtifact # <<>>
    /\ run.charts = <<Chart("plotly_chart", StoredArtifact[1])>>
    /\ \E e \in rendered :
          /\ e.value = StoredArtifact[1]
          /\ ~SameSelectors(run, e.key)
    /\ \A e \in rendered : SameSelectors(run, e.key) => e.value # StoredArtifact[1]
    /\ (NoRecordMatches(run) <=> StoredArtifact[1].data # <<>>)

\* C2 (as claimed): a click on a region id absent from the region collection
\* ends in a message to the user, and the run does not raise.
C2_AbsentRegionShowsMessage ==
    (/\ run.page = YC
     /\ run.fnid # None
     /\ run.fnid \notin {g.fnid : g \in Range(gdf)})
    => (run.outcome = "ok" /\ run.messages # <<>>)

\* C3: the subset create_map computes holds exactly the forecast records whose
\* season, year, model and lead equal the selection and whose region id is in
\* the selected country's region ids: no partial match, none left out.
C3_SubsetIsConjunctiveFilter ==
    (run.page = HF /\ run.df_filt # <<>>) =>
        LET sub == run.df_filt[1] IN
        /\ Range(run.country_fnids) = SelectedFnids(run)
        /\ \A i \in DOMAIN sub : sub[i] \in Range(yield_fcst) /\ Matches(run, sub[i])
        /\ \A q \in Range(yield_fcst) :
              Matches(run, q) => Count(sub, q) = Count(yield_fcst, q)

\* C3 witness: a computed subset that keeps one record and leaves out another
\* that matches the selection in some selectors only.
C3_PartialMatchLeftOut ==
    /\ run.page = HF /\ run.df_filt # <<>>
    /\ Len(run.df_filt[1]) = 1
    /\ \E q \in Range(yield_fcst) :
          /\ ~Matches(run, q)
          /\ q.fnid \in SelectedFnids(run)
          /\ q.season = run.selected_season
          /\ q.model = run.selected_model

\* C4 (as claimed): a trigger whose selector tuple matches no record shows a
\* "no data" indicator in that run.
C4_NoDataIndicatorShown ==
    (run.page = HF /\ run.update /\ NoRecordMatches(run)) =>
        \E i \in DOMAIN run.messages : run.messages[i].kind \in {"warning", "info"}

C6_NoYearsHaltsTheRun ==
    [][(run'.page = HF /\ AvailableYears(run') = {}) =>
          /\ run'.outcome = "stopped"
          /\ HasMessage(run', "warning",
                 "No forecast years available for the selected conditions.")
          /\ run'.selected_year = <<>>
          /\ ~run'.update
          /\ run'.calls = <<>>
          /\ run'.charts = <<>>
          /\ StoredArtifact' = StoredArtifact
          /\ create_map_cache' = create_map_cache]_vars

\* C6 witness: the run halts for lack of years while an artifact is stored.
C6_HaltedWithStoredArtifact ==
    /\ run.page = HF /\ run.outcome = "stopped"
    /\ AvailableYears(run) = {}
    /\ run.selected_season # None
    /\ StoredArtifact # <<>>

\* C7 (as claimed): filtering by a region id of the region collection returns
\* exactly the rows of that id, and the yield rows are non-decreasing in year
\* whatever the row order of the loaded table.
C7_YieldRowsSortedByYear ==
    (run.page = YC /\ run.crop_yield # <<>>) =>
        /\ \A i \in DOMAIN run.crop_yield[1] : run.crop_yield[1][i].fnid = run.fnid
        /\ Len(run.crop_yield[1]) = Cardinality({i \in DOMAIN viewer_yield :
                                                    viewer_yield[i].fnid = run.fnid})
        /\ NonDecreasing(run.crop_yield[1], "year")

\* C7 (amended): filtering by a region id of the region collection returns
\* exactly the yield and EO rows of that id, in the loaded table's row order;
\* the yield rows are non-decreasing in year when that region's rows of the
\* loaded table are.
C7_FilterKeepsTableOrder ==
    (run.page = YC /\ run.crop_yield # <<>> /\ run.eo_df # <<>>) =>
        /\ run.fnid \in {g.fnid : g \in Range(gdf)}
        /\ \A i \in DOMAIN run.crop_yield[1] : run.crop_yield[1][i].fnid = run.fnid
        /\ \A i \in DOMAIN run.eo_df[1] : run.eo_df[1][i].fnid = run.fnid
        /\ InTableOrder(run.crop_yield[1], viewer_yield, run.fnid)
        /\ InTableOrder(run.eo_df[1], cape_eo, run.fnid)
        /\ (\A i, j \in DOMAIN viewer_yield :
               (/\ i < j
                /\ viewer_yield[i].fnid = run.fnid
                /\ viewer_yield[j].fnid = run.fnid)
               => viewer_yield[i].year <= viewer_yield[j].year)
           => NonDecreasing(run.crop_yield[1], "year")

\* C7 witness: a filtered yield subset that keeps a row and leaves out the row
\* of another region.
C7_RegionRowsSelected ==
    /\ run.page = YC /\ run.crop_yield # <<>>
    /\ Len(run.crop_yield[1]) = 1
    /\ Len(viewer_yield) = 2

C9_RenderersOnlyOnNonEmptySubsets ==
    (run.page = YC) =>
        LET yieldRows == {i \in DOMAIN viewer_yield : viewer_yield[i].fnid = run.fnid}
            eoRows == {i \in DOMAIN cape_eo : cape_eo[i].fnid = run.fnid}
        IN
        /\ \A i \in Called(run, "plot_yield_obs") :
              /\ run.fnid # None
              /\ yieldRows # {}
              /\ Len(run.calls[i].data) = Cardinality(yieldRows)
        /\ \A i \in Called(run, "plot_eo_var") :
              /\ run.fnid # None
              /\ eoRows # {}
              /\ Len(run.calls[i].data) = Cardinality(eoRows)
              /\ run.selected_eo_var \in Range(eo_vars)
              /\ run.calls[i].selected_eo = run.selected_eo_var
        /\ run.fnid = None =>
              /\ run.calls = <<>> /\ run.charts = <<>>
              /\ run.crop_yield = <<>> /\ run.eo_df = <<>>
              /\ run.messages = <<Message("info", "Click a region on the map to begin.")>>
        /\ (run.fnid # None /\ run.outcome = "ok" /\ yieldRows = {}) =>
              /\ Called(run, "plot_yield_obs") = {}
              /\ HasMessage(run, "warning", "No yield data available for this region.")
        /\ (run.fnid # None /\ run.outcome = "ok" /\ eoRows = {}) =>
              /\ Called(run, "plot_eo_var") = {}
              /\ HasMessage(run, "warning", "No EO data available for this region.")

\* C9 witness: a selected region with no yield rows, so the placeholder, and
\* with EO rows, so the EO chart of the chosen variable.
C9_PlaceholderBesideChart ==
    /\ run.page = YC /\ run.fnid # None /\ run.outcome = "ok"
    /\ Called(run, "plot_yield_obs") = {}
    /\ Called(run, "plot_eo_var") # {}
    /\ run.selected_eo_var = "prcp"
    /\ Len(run.charts) = 1

\* C10: in Flow B the season options are the seasons of all forecast records
\* of the selected country's regions, and the year options lie between the
\* least and the greatest year on record for the (country, season), both of
\* which are offered.
C10_SeasonAndYearOptions ==
    (run.page = HF) =>
        /\ Range(run.seasons) =
              {q.season : q \in {x \in Range(yield_fcst) : x.fnid \in SelectedFnids(run)}}
        /\ (run.outcome = "ok") =>
              LET Y == AvailableYears(run) IN
              /\ Y # {}
              /\ \A y \in Range(run.year_range) :
                    (\E lo \in Y : lo <= y) /\ (\E hi \in Y : y <= hi)
              /\ Y \subseteq Range(run.year_range)
              /\ run.selected_year[1] \in Range(run.year_range)

\* C10 witness: the year options include a year strictly between the least
\* and the greatest year on record, for which there is no record.
C10_GapYearOffered ==
    /\ run.page = HF /\ run.outcome = "ok"
    /\ run.seasons # <<>>
    /\ \E y \in Range(run.year_range) : y \notin AvailableYears(run)

====
